---- MODULE Spec2Model ----
(***************************************************************************)
(* serve.py: a loopback static file server.  Module level registers five   *)
(* MIME types; COOPCOEPHandler.end_headers adds two cross-origin headers   *)
(* to every header block; the __main__ block parses the port, prints two   *)
(* lines, binds a ThreadingHTTPServer on 127.0.0.1 and serves forever.     *)
(* Strings that the program parses are sequences of one-character strings. *)
(***************************************************************************)
EXTENDS Integers, Sequences, FiniteSets, TLC

VARIABLES
    types_map,      \* mimetypes' strict extension -> type table (process wide)
    mimeIdx,        \* how many of the module-level add_type calls have run
    pc,             \* main thread: "module", "parse", "print", "bind", "serve", "exit"
    argv,           \* sys.argv[1:], each argument a sequence of characters
    port,           \* the local variable port of the __main__ block: <<p>>, <<>> while unassigned
    stdout,         \* the lines printed so far
    listener,       \* the bound listening socket, or NoSocket
    bindAttempts,   \* how many times a bind was attempted
    error,          \* the exception that ended the process, or "none"
    conn,           \* the connections, in order of arrival
    now             \* the last reading of the wall clock, in seconds

vars == <<types_map, mimeIdx, pc, argv, port, stdout, listener, bindAttempts,
          error, conn, now>>

(***************************************************************************)
(* Bounds of the model.                                                    *)
(***************************************************************************)
MaxConns == 2
MaxClock == 1

(***************************************************************************)
(* The MIME table.                                                         *)
(***************************************************************************)
NoType == "<none>"

Exts == {".js", ".mjs", ".wasm", ".map", ".json", ".txt"}

\* What a platform's mime.types / registry may hold for an extension before
\* the program touches the table.
PlatformTypes == {NoType, "text/plain", "text/javascript"}

\* serve.py lines 6-10, in order: (type, ext).
Corrections ==
    << <<"application/javascript", ".js">>,
       <<"application/javascript", ".mjs">>,
       <<"application/wasm",       ".wasm">>,
       <<"application/json",       ".map">>,
       <<"application/json",       ".json">> >>

\* A registration that leaves an existing entry alone (dict.setdefault).
add_type_setdefault(tm, type, ext) ==
    IF tm[ext] = NoType THEN [tm EXCEPT ![ext] = type] ELSE tm

\* mimetypes.add_type(type, ext), strict: the entry is overwritten or inserted.
add_type(tm, type, ext) == [tm EXCEPT ![ext] = type]

\* The __main__ block entered without waiting for the registrations.
ModuleLevelDone_early == TRUE

\* The module-level statements have all run once the import of serve.py
\* reaches the __main__ block.
ModuleLevelDone == mimeIdx = Len(Corrections)

(***************************************************************************)
(* int(sys.argv[1]): optional surrounding whitespace, an optional sign,    *)
(* then digits, single underscores allowed between digits.                 *)
(***************************************************************************)
Digits == <<"0", "1", "2", "3", "4", "5", "6", "7", "8", "9">>

IsDigit(ch) == \E i \in 1..10 : Digits[i] = ch

DigitVal(ch) == (CHOOSE i \in 1..10 : Digits[i] = ch) - 1

RECURSIVE LStrip(_)
LStrip(s) == IF s # <<>> /\ Head(s) = " " THEN LStrip(Tail(s)) ELSE s

RECURSIVE RStrip(_)
RStrip(s) ==
    IF s # <<>> /\ s[Len(s)] = " " THEN RStrip(SubSeq(s, 1, Len(s) - 1)) ELSE s

Unsigned(s) == IF s # <<>> /\ Head(s) \in {"+", "-"} THEN Tail(s) ELSE s

WellFormedDigits(d) ==
    /\ d # <<>>
    /\ IsDigit(d[1])
    /\ IsDigit(d[Len(d)])
    /\ \A i \in 1..Len(d) : IsDigit(d[i]) \/ d[i] = "_"
    /\ \A i \in 1..(Len(d) - 1) : ~(d[i] = "_" /\ d[i + 1] = "_")

RECURSIVE Magnitude(_, _)
Magnitude(d, acc) ==
    IF d = <<>> THEN acc
    ELSE IF Head(d) = "_" THEN Magnitude(Tail(d), acc)
    ELSE Magnitude(Tail(d), 10 * acc + DigitVal(Head(d)))

int_ok(s) == WellFormedDigits(Unsigned(RStrip(LStrip(s))))

int_value(s) ==
    LET t == RStrip(LStrip(s))
        m == Magnitude(Unsigned(t), 0)
    IN  IF Head(t) = "-" THEN 0 - m ELSE m

DefaultPort == 8000

\* A parse that falls back to the default port on a bad argument.
port_of_argv_fallback(args) ==
    IF Len(args) > 0 /\ int_ok(args[1]) THEN <<int_value(args[1])>>
    ELSE <<DefaultPort>>

\* line 21: port = int(sys.argv[1]) if len(sys.argv) > 1 else 8000.
\* The result is <<p>>, or <<>> when int() raises ValueError (not caught).
port_of_argv(args) ==
    IF Len(args) > 0
    THEN IF int_ok(args[1]) THEN <<int_value(args[1])>> ELSE <<>>
    ELSE <<DefaultPort>>

\* The command lines the model starts the program with.
Args ==
    { <<>>,
      << <<" ", "+", "9", "_", "0", "9", "0">>, <<"x">> >>,
      << <<"0">> >>,
      << <<"a", "b", "c">> >>,
      << <<"8", "0", "8", "0", "x">> >>,
      << <<"7", "0", "0", "0", "0">> >>,
      << <<"-", "1">> >> }

(***************************************************************************)
(* The listening socket.                                                   *)
(***************************************************************************)
Loopback == "127.0.0.1"

NoSocket == [host |-> "", port |-> -1]

\* The port the kernel hands out when asked to bind port 0: one of its
\* ephemeral range.
EphemeralPorts == {49152}

MaxPort == 65535

\* A bind on every interface.
server_address_any(p) == [host |-> "0.0.0.0", port |-> p]

\* line 25: the address handed to ThreadingHTTPServer.
server_address(p) == [host |-> Loopback, port |-> p]

\* socket.bind on that address: port 0 asks the kernel for a free port.
BoundAddresses(addr) ==
    IF addr.port = 0
    THEN {[host |-> addr.host, port |-> e] : e \in EphemeralPorts}
    ELSE {addr}

\* line 22: the URL in the first printed line; line 23: the second line.
UrlLine(p) == [kind |-> "url", host |-> Loopback, port |-> p]

MimeLine == [kind |-> "mime", host |-> "", port |-> -1]

(***************************************************************************)
(* Startup.                                                                *)
(***************************************************************************)
Init ==
    /\ types_map \in {t \in [Exts -> PlatformTypes] : t[".txt"] = "text/plain"}
    /\ mimeIdx = 0
    /\ pc = "module"
    /\ argv \in Args
    /\ port = <<>>
    /\ stdout = <<>>
    /\ listener = NoSocket
    /\ bindAttempts = 0
    /\ error = "none"
    /\ conn = <<>>
    /\ now = 0

\* lines 6-10: the next add_type call.
AddType ==
    /\ pc = "module"
    /\ mimeIdx < Len(Corrections)
    /\ types_map' = add_type(types_map, Corrections[mimeIdx + 1][1],
                             Corrections[mimeIdx + 1][2])
    /\ mimeIdx' = mimeIdx + 1
    /\ UNCHANGED <<pc, argv, port, stdout, listener, bindAttempts, error, conn, now>>

\* line 19: the __main__ block starts after the module-level statements.
EnterMain ==
    /\ pc = "module"
    /\ ModuleLevelDone
    /\ pc' = "parse"
    /\ UNCHANGED <<types_map, mimeIdx, argv, port, stdout, listener,
                   bindAttempts, error, conn, now>>

\* line 21.
ParsePort ==
    /\ pc = "parse"
    /\ LET p == port_of_argv(argv)
       IN  IF p = <<>>
           THEN /\ pc' = "exit"
                /\ error' = "ValueError"
                /\ port' = port
           ELSE /\ pc' = "print"
                /\ port' = p
                /\ error' = error
    /\ UNCHANGED <<types_map, mimeIdx, argv, stdout, listener, bindAttempts,
                   conn, now>>

\* lines 22-23.
PrintLines ==
    /\ pc = "print"
    /\ stdout' = stdout \o <<UrlLine(port[1]), MimeLine>>
    /\ pc' = "bind"
    /\ UNCHANGED <<types_map, mimeIdx, argv, port, listener, bindAttempts,
                   error, conn, now>>

\* line 25, the constructor: bind and listen.  The port may be out of range
\* (OverflowError) or held by another process (OSError); neither is caught.
Bind ==
    /\ pc = "bind"
    /\ bindAttempts' = bindAttempts + 1
    /\ LET addr == server_address(port[1])
       IN  \/ /\ addr.port \notin 0..MaxPort
              /\ pc' = "exit"
              /\ error' = "OverflowError"
              /\ listener' = listener
           \/ /\ addr.port \in 1..MaxPort
              /\ pc' = "exit"
              /\ error' = "OSError"
              /\ listener' = listener
           \/ /\ addr.port \in 0..MaxPort
              /\ listener' \in BoundAddresses(addr)
              /\ pc' = "serve"
              /\ error' = error
    /\ UNCHANGED <<types_map, mimeIdx, argv, port, stdout, conn, now>>

(***************************************************************************)
(* Requests and the served directory.  A path is its name split at the     *)
(* dots: "/app.js.map" is <<"/app", ".js", ".map">>.                       *)
(***************************************************************************)
Req(command, path, version, ims) ==
    [command |-> command, path |-> path, version |-> version, ims |-> ims]

\* version "HTTP/0.9" stands for a request line of two words (no version);
\* ims is the If-Modified-Since header: "none", or "later" for a date not
\* before the file's modification time.
Requests ==
    { Req("GET",  <<"/app", ".js">>,          "HTTP/1.1", "none"),
      Req("HEAD", <<"/app", ".js", ".map">>,  "HTTP/1.0", "none"),
      Req("GET",  <<"/missing", ".js">>,      "HTTP/1.1", "none"),
      Req("GET",  <<"/app", ".js">>,          "HTTP/1.1", "later"),
      Req("GET",  <<"/app", ".js">>,          "HTTP/0.9", "none"),
      Req("POST", <<"/app", ".js">>,          "HTTP/1.1", "none"),
      Req("GET",  <<"/cfg", ".json">>,        "FOO/1.1",  "none") }

\* The files under the working directory; they do not change while serving.
Files ==
    { [path |-> <<"/app", ".js">>,         size |-> "15",  mtime |-> "m1"],
      [path |-> <<"/MOD", ".MJS">>,        size |-> "20",  mtime |-> "m2"],
      [path |-> <<"/rt", ".wasm">>,        size |-> "900", mtime |-> "m3"],
      [path |-> <<"/app", ".js", ".map">>, size |-> "77",  mtime |-> "m4"],
      [path |-> <<"/cfg", ".json">>,       size |-> "3",   mtime |-> "m5"] }

FileExists(path) == \E f \in Files : f.path = path

FileAt(path) == CHOOSE f \in Files : f.path = path

\* posixpath.splitext: the last dotted component, "" when there is none.
splitext(path) == IF Len(path) > 1 THEN path[Len(path)] ELSE ""

\* str.lower on an extension.
lower(ext) ==
    CASE ext = ".JS"   -> ".js"
      [] ext = ".MJS"  -> ".mjs"
      [] ext = ".WASM" -> ".wasm"
      [] ext = ".MAP"  -> ".map"
      [] ext = ".JSON" -> ".json"
      [] OTHER         -> ext

\* SimpleHTTPRequestHandler.extensions_map: consulted before mimetypes.
extensions_map(ext) ==
    CASE ext = ".gz"  -> "application/gzip"
      [] ext = ".Z"   -> "application/octet-stream"
      [] ext = ".bz2" -> "application/x-bzip2"
      [] ext = ".xz"  -> "application/x-xz"
      [] OTHER        -> NoType

\* mimetypes.guess_type on the strict table: the extension as written, then
\* lower-cased.
mimetypes_guess_type(tm, path) ==
    LET ext == splitext(path)
    IN  IF ext \in DOMAIN tm /\ tm[ext] # NoType THEN tm[ext]
        ELSE IF lower(ext) \in DOMAIN tm THEN tm[lower(ext)]
        ELSE NoType

\* SimpleHTTPRequestHandler.guess_type, as used by the file-serving logic.
guess_type(tm, path) ==
    LET ext == splitext(path)
    IN  IF extensions_map(ext) # NoType THEN extensions_map(ext)
        ELSE IF extensions_map(lower(ext)) # NoType THEN extensions_map(lower(ext))
        ELSE IF mimetypes_guess_type(tm, path) # NoType
             THEN mimetypes_guess_type(tm, path)
        ELSE "application/octet-stream"

(***************************************************************************)
(* The response writer.  A handler h carries the request's version and     *)
(* command, the header buffer, what was flushed to the socket (wire) and   *)
(* the body written after it.  A line is [k, v]: the status line has the   *)
(* protocol version as k, the blank line has both empty.                   *)
(***************************************************************************)
Line(k, v) == [k |-> k, v |-> v]

BlankLine == Line("", "")

ProtocolVersion == "HTTP/1.0"

NoBody == [kind |-> "none", of |-> <<>>]

FileBody(path) == [kind |-> "file", of |-> path]

ErrorBody(code) == [kind |-> "error", of |-> <<ToString(code)>>]

\* cls is the handler class the server instantiates for the request.
\* Until parse_request has read them, command is unset and request_version
\* is the default, HTTP/0.9.
NewHandler(cls) ==
    [cls |-> cls, request_version |-> "HTTP/0.9", command |-> "",
     buf |-> <<>>, wire |-> <<>>, body |-> NoBody]

\* BaseHTTPRequestHandler.send_response_only
send_response_only(h, code) ==
    IF h.request_version # "HTTP/0.9"
    THEN [h EXCEPT !.buf = Append(@, Line(ProtocolVersion, ToString(code)))]
    ELSE h

\* BaseHTTPRequestHandler.send_header
send_header(h, keyword, value) ==
    IF h.request_version # "HTTP/0.9"
    THEN [h EXCEPT !.buf = Append(@, Line(keyword, value))]
    ELSE h

\* BaseHTTPRequestHandler.send_response: status line, Server, Date.
send_response(h, code, t) ==
    send_header(send_header(send_response_only(h, code),
                            "Server", "SimpleHTTP"),
                "Date", ToString(t))

\* BaseHTTPRequestHandler.end_headers: the blank line, then the flush.
base_end_headers(h) ==
    IF h.request_version # "HTTP/0.9"
    THEN [h EXCEPT !.wire = @ \o Append(h.buf, BlankLine), !.buf = <<>>]
    ELSE h

\* An override that forgets the embedder policy.
end_headers_coop_only(h) ==
    base_end_headers(send_header(h, "Cross-Origin-Opener-Policy", "same-origin"))

\* An override that sends the two headers the other way round.
end_headers_swapped(h) ==
    base_end_headers(
        send_header(
            send_header(h, "Cross-Origin-Embedder-Policy", "credentialless"),
            "Cross-Origin-Opener-Policy", "same-origin"))

\* An override that assigns the header buffer instead of appending to it.
end_headers_replacing(h) ==
    base_end_headers(
        [h EXCEPT !.buf = IF h.request_version # "HTTP/0.9"
                          THEN <<Line("Cross-Origin-Opener-Policy", "same-origin"),
                                 Line("Cross-Origin-Embedder-Policy", "credentialless")>>
                          ELSE <<>>])

\* COOPCOEPHandler.end_headers, lines 13-17.
end_headers(h) ==
    base_end_headers(
        send_header(
            send_header(h, "Cross-Origin-Opener-Policy", "same-origin"),
            "Cross-Origin-Embedder-Policy", "credentialless"))

\* self.end_headers(): the method the handler's class resolves it to.
self_end_headers(h) ==
    IF h.cls = "COOPCOEPHandler" THEN end_headers(h) ELSE base_end_headers(h)

write_body(h, body) == [h EXCEPT !.body = body]

\* BaseHTTPRequestHandler.send_error; every code used here carries a body.
send_error(h, code, t) ==
    LET h1 == send_header(send_response(h, code, t), "Connection", "close")
        h2 == send_header(send_header(h1, "Content-Type", "text/html;charset=utf-8"),
                          "Content-Length", "len-error")
        h3 == self_end_headers(h2)
    IN  IF h.command # "HEAD" THEN write_body(h3, ErrorBody(code)) ELSE h3

\* A send_head that stamps Last-Modified with the time of the response.
send_head_stamped(h, req, t, tm) ==
    IF ~FileExists(req.path) THEN send_error(h, 404, t)
    ELSE IF req.ims = "later" THEN self_end_headers(send_response(h, 304, t))
    ELSE
        LET f  == FileAt(req.path)
            h1 == send_response(h, 200, t)
            h2 == send_header(h1, "Content-type", guess_type(tm, req.path))
            h3 == send_header(h2, "Content-Length", f.size)
            h4 == send_header(h3, "Last-Modified", ToString(t))
            h5 == self_end_headers(h4)
        IN  IF h.command = "GET" THEN write_body(h5, FileBody(req.path)) ELSE h5

\* SimpleHTTPRequestHandler.send_head followed by do_GET's copyfile (or
\* nothing, for do_HEAD).
send_head(h, req, t, tm) ==
    IF ~FileExists(req.path) THEN send_error(h, 404, t)
    ELSE IF req.ims = "later" THEN self_end_headers(send_response(h, 304, t))
    ELSE
        LET f  == FileAt(req.path)
            h1 == send_response(h, 200, t)
            h2 == send_header(h1, "Content-type", guess_type(tm, req.path))
            h3 == send_header(h2, "Content-Length", f.size)
            h4 == send_header(h3, "Last-Modified", f.mtime)
            h5 == self_end_headers(h4)
        IN  IF h.command = "GET" THEN write_body(h5, FileBody(req.path)) ELSE h5

\* BaseHTTPRequestHandler.handle_one_request: parse_request, then dispatch
\* to do_GET / do_HEAD, or 501 when the handler has no such method.  A
\* request line of two words is HTTP/0.9 and must be a GET; a malformed
\* version is refused while request_version is still the default.
handle_one_request(h0, req, t, tm) ==
    IF req.version = "HTTP/0.9"
    THEN IF req.command # "GET" THEN send_error(h0, 400, t)
         ELSE send_head([h0 EXCEPT !.command = req.command], req, t, tm)
    ELSE IF req.version \notin {"HTTP/1.0", "HTTP/1.1"}
    THEN send_error(h0, 400, t)
    ELSE LET h1 == [h0 EXCEPT !.request_version = req.version,
                              !.command = req.command]
         IN  IF req.command \in {"GET", "HEAD"}
             THEN send_head(h1, req, t, tm)
             ELSE send_error(h1, 501, t)

\* line 25: the handler class handed to the server.
RequestHandlerClass == "COOPCOEPHandler"

(***************************************************************************)
(* Serving: ThreadingHTTPServer.serve_forever.                             *)
(***************************************************************************)
MainThread == 0

\* A server without the threading mix-in: the handler runs on the main thread.
process_request_inline(c) == MainThread

\* ThreadingMixIn.process_request: the handler of the c-th connection runs
\* on a new thread of its own, named here by the connection's number.
process_request(c) == c

Active(c) == conn[c].state \in {"handling", "streaming"}

\* The accept loop runs on the main thread: it is back in select() unless a
\* handler is running on the main thread.
AcceptLoopReady ==
    /\ pc = "serve"
    /\ \A c \in 1..Len(conn) : Active(c) => conn[c].unit # MainThread

NoRequest == Req("", <<>>, "", "none")

\* A client completes a TCP handshake with the listening socket; the
\* connection waits in the listen backlog.
Connect ==
    /\ listener # NoSocket
    /\ Len(conn) < MaxConns
    /\ conn' = Append(conn, [state |-> "pending", req |-> NoRequest, unit |-> -1,
                             date |-> -1, wire |-> <<>>, body |-> NoBody])
    /\ UNCHANGED <<types_map, mimeIdx, pc, argv, port, stdout, listener,
                   bindAttempts, error, now>>

\* The accept loop takes the oldest connection of the backlog and hands it
\* to process_request.
Accept(c) ==
    /\ c \in 1..Len(conn)
    /\ AcceptLoopReady
    /\ conn[c].state = "pending"
    /\ \A d \in 1..(c - 1) : conn[d].state # "pending"
    /\ conn' = [conn EXCEPT ![c].state = "handling",
                            ![c].unit = process_request(c)]
    /\ UNCHANGED <<types_map, mimeIdx, pc, argv, port, stdout, listener,
                   bindAttempts, error, now>>

\* The time the next reading of time.time() may give: the clock does not
\* run backwards.
ClockReadings == now..MaxClock

\* The handler reads the client's request and writes the header block (the
\* first bytes of the response), dated t by the clock; the body follows as
\* the client reads.
Respond(c, req, t) ==
    /\ c \in 1..Len(conn)
    /\ conn[c].state = "handling"
    /\ t \in ClockReadings
    /\ LET h == handle_one_request(NewHandler(RequestHandlerClass), req,
                                   t, types_map)
       IN  conn' = [conn EXCEPT ![c].state = "streaming",
                                ![c].req = req,
                                ![c].date = t,
                                ![c].wire = h.wire,
                                ![c].body = h.body]
    /\ now' = t
    /\ UNCHANGED <<types_map, mimeIdx, pc, argv, port, stdout, listener,
                   bindAttempts, error>>

\* The client has read the whole response; the handler closes the socket
\* and its execution unit ends.  A stalled client never takes this step.
Finish(c) ==
    /\ c \in 1..Len(conn)
    /\ conn[c].state = "streaming"
    /\ conn' = [conn EXCEPT ![c].state = "done"]
    /\ UNCHANGED <<types_map, mimeIdx, pc, argv, port, stdout, listener,
                   bindAttempts, error, now>>

Next ==
    \/ AddType
    \/ EnterMain
    \/ ParsePort
    \/ PrintLines
    \/ Bind
    \/ Connect
    \/ \E c \in 1..MaxConns : Accept(c)
    \/ \E c \in 1..MaxConns, r \in Requests, t \in 0..MaxClock : Respond(c, r, t)
    \/ \E c \in 1..MaxConns : Finish(c)

Spec == Init /\ [][Next]_vars

(***************************************************************************)
(* Properties.                                                             *)
(***************************************************************************)
Conns == 1..Len(conn)

\* The handler has produced the response of connection c.
Served(c) == conn[c].state \in {"streaming", "done"}

CoopLine == Line("Cross-Origin-Opener-Policy", "same-origin")

CoepLine == Line("Cross-Origin-Embedder-Policy", "credentialless")

InjectedNames == {"Cross-Origin-Opener-Policy", "Cross-Origin-Embedder-Policy"}

\* The header block w holds exactly one header of that name, with that value.
ExactlyOne(w, line) ==
    /\ Cardinality({i \in 1..Len(w) : w[i].k = line.k}) = 1
    /\ \E i \in 1..Len(w) : w[i] = line

\* The status code of a header block ("" when there is none).
StatusOf(w) == IF w = <<>> THEN "" ELSE w[1].v

HasVersion(req) == req.version \in {"HTTP/1.0", "HTTP/1.1"}

BothInjectedOnce(w) == ExactlyOne(w, CoepLine) /\ ExactlyOne(w, CoopLine)

\* C1 as stated: every response the handler produces, whatever the request
\* and the status, has a header block holding exactly one
\* Cross-Origin-Embedder-Policy: credentialless and exactly one
\* Cross-Origin-Opener-Policy: same-origin.
C1_EveryResponseHasBoth ==
    \A c \in Conns : Served(c) => BothInjectedOnce(conn[c].wire)

\* C1 amended: every response to a request line that carries a valid HTTP
\* version (success, 304, 404, 501) has exactly one of each header; the
\* response to a request line without one (HTTP/0.9 style, or refused for
\* its version) has no status line and no header at all.
C1_EveryHeaderBlockHasBoth ==
    \A c \in Conns :
        Served(c) =>
            IF HasVersion(conn[c].req)
            THEN BothInjectedOnce(conn[c].wire)
            ELSE conn[c].wire = <<>>

\* An error response (404) with exactly one of each header has been sent.
C1_Witness ==
    \E c \in Conns :
        /\ Served(c)
        /\ StatusOf(conn[c].wire) = "404"
        /\ BothInjectedOnce(conn[c].wire)

\* C2 as stated: a finalized header block ends with
\* Cross-Origin-Embedder-Policy, then Cross-Origin-Opener-Policy, then the
\* blank line.
C2_EmbedderThenOpener ==
    \A c \in Conns :
        (Served(c) /\ conn[c].wire # <<>>) =>
            LET w == conn[c].wire
                n == Len(w)
            IN  /\ n >= 3
                /\ w[n] = BlankLine
                /\ w[n - 1] = CoopLine
                /\ w[n - 2] = CoepLine

\* C2 amended: a finalized header block ends with
\* Cross-Origin-Opener-Policy, then Cross-Origin-Embedder-Policy, then the
\* blank line; everything the file-serving logic wrote comes before them and
\* the blank line occurs nowhere else.
C2_OpenerThenEmbedder ==
    \A c \in Conns :
        (Served(c) /\ conn[c].wire # <<>>) =>
            LET w == conn[c].wire
                n == Len(w)
            IN  /\ n >= 3
                /\ w[n] = BlankLine
                /\ w[n - 1] = CoepLine
                /\ w[n - 2] = CoopLine
                /\ \A i \in 1..(n - 3) :
                       w[i].k \notin InjectedNames /\ w[i] # BlankLine

\* A 200 response whose header block holds the file-serving headers and then
\* the two injected ones.
C2_Witness ==
    \E c \in Conns :
        /\ Served(c)
        /\ StatusOf(conn[c].wire) = "200"
        /\ Len(conn[c].wire) = 9
        /\ conn[c].wire[6].k = "Last-Modified"

\* The content types section 4.2 of the specification lists.
SpecType(ext) ==
    CASE ext = ".js"   -> "application/javascript"
      [] ext = ".mjs"  -> "application/javascript"
      [] ext = ".wasm" -> "application/wasm"
      [] ext = ".map"  -> "application/json"
      [] ext = ".json" -> "application/json"
      [] OTHER         -> NoType

\* C3: once the module-level statements have run, the file-serving logic's
\* lookup for a path ending in .js, .mjs, .wasm, .map or .json gives
\* application/javascript, application/javascript, application/wasm,
\* application/json, application/json, whatever the platform table held;
\* every 200 response carries that value as its only Content-type.
C3_CorrectedTypes ==
    /\ pc # "module" =>
           \A f \in Files :
               SpecType(lower(splitext(f.path))) # NoType =>
                   guess_type(types_map, f.path) = SpecType(lower(splitext(f.path)))
    /\ \A c \in Conns :
           (Served(c) /\ StatusOf(conn[c].wire) = "200") =>
               ExactlyOne(conn[c].wire,
                          Line("Content-type",
                               SpecType(lower(splitext(conn[c].req.path)))))

\* A source map has been served as application/json.
C3_Witness ==
    \E c \in Conns :
        /\ Served(c)
        /\ conn[c].req.path = <<"/app", ".js", ".map">>
        /\ \E i \in 1..Len(conn[c].wire) :
               conn[c].wire[i] = Line("Content-type", "application/json")

TableCorrected ==
    \A i \in 1..Len(Corrections) : types_map[Corrections[i][2]] = Corrections[i][1]

\* C4: the table is written only by the module-level statements, before the
\* listener is bound and before any connection exists; once the listener is
\* bound all five upserts are in place, and no step taken after that changes
\* the table.
C4_TableWrittenOnlyAtStartup ==
    /\ [](listener # NoSocket => (ModuleLevelDone /\ TableCorrected))
    /\ [][(types_map' # types_map \/ mimeIdx' # mimeIdx) =>
              (pc = "module" /\ listener = NoSocket /\ conn = <<>>)]_vars

\* Two handlers have answered while the table holds the five corrections.
C4_Witness ==
    /\ Len(conn) >= 2
    /\ \A c \in Conns : Served(c)
    /\ TableCorrected

\* The port the command line asks for (only used when int() accepts it).
RequestedPort == IF Len(argv) > 0 THEN int_value(argv[1]) ELSE 8000

\* C5 as stated: whenever the server listens, the socket is bound to exactly
\* (127.0.0.1, p), p being 8000 without an argument and the integer value of
\* the first argument otherwise.
C5_BoundToRequestedPort ==
    listener # NoSocket =>
        listener = [host |-> "127.0.0.1", port |-> RequestedPort]

\* C5 amended: whenever the server listens, there was a single bind, the
\* socket is bound to 127.0.0.1 and to port p, except that for p = 0 the
\* kernel picks the port (a port other than 0).
C5_BoundToLoopback ==
    listener # NoSocket =>
        /\ bindAttempts = 1
        /\ listener.host = "127.0.0.1"
        /\ IF RequestedPort # 0
           THEN listener.port = RequestedPort
           ELSE listener.port \in 1..MaxPort

\* The server listens on 127.0.0.1:9090, as the first argument asked.
C5_Witness ==
    /\ Len(argv) = 2
    /\ listener = [host |-> "127.0.0.1", port |-> 9090]
    /\ pc = "serve"

\* C6: a startup error is fatal.  With a first argument int() refuses there
\* is no bind attempt; after any error the process has exited, holds no
\* listener and has accepted nothing, and takes no further step; there is
\* never a second bind attempt.
C6_StartupErrorIsFatal ==
    /\ []((Len(argv) > 0 /\ ~int_ok(argv[1])) =>
              (bindAttempts = 0 /\ listener = NoSocket /\ pc # "serve"))
    /\ [](error # "none" =>
              (pc = "exit" /\ listener = NoSocket /\ conn = <<>>))
    /\ [](bindAttempts <= 1)
    /\ [][error # "none" => UNCHANGED vars]_vars

\* The port was taken: the process ended on the OSError of its only bind.
C6_Witness ==
    /\ error = "OSError"
    /\ pc = "exit"
    /\ bindAttempts = 1
    /\ listener = NoSocket

\* C7: each accepted connection is handled on an execution unit of its
\* own, never the accept loop's and never another connection's; and
\* whatever the other connections are doing (open, stalled in the middle of
\* a response), the accept loop can take the oldest connection of the
\* backlog at once: it does not wait for a client to finish or disconnect.
C7_NoHeadOfLineBlocking ==
    \A c \in Conns :
        /\ conn[c].state # "pending" =>
               /\ conn[c].unit # MainThread
               /\ \A d \in Conns : (d # c /\ conn[d].state # "pending") =>
                      conn[d].unit # conn[c].unit
        /\ (conn[c].state = "pending"
               /\ \A d \in 1..(c - 1) : conn[d].state # "pending") =>
               ENABLED Accept(c)

\* Client 1 is still being served (its connection open) and client 2,
\* accepted later, has its first bytes for a different file.
C7_Witness ==
    /\ Len(conn) >= 2
    /\ conn[1].state = "streaming"
    /\ conn[2].state = "streaming"
    /\ conn[1].req.path # conn[2].req.path

HeaderSet(w) == {w[i] : i \in 1..Len(w)}

\* The header set with the value of Date blanked.
HeaderSetButDate(w) ==
    {IF w[i].k = "Date" THEN Line("Date", "") ELSE w[i] : i \in 1..Len(w)}

\* C8 as stated: two responses to the same request for an existing file have
\* the same body and the same set of headers.
C8_SameHeadersAndBody ==
    \A c, d \in Conns :
        (Served(c) /\ Served(d) /\ conn[c].req = conn[d].req
            /\ FileExists(conn[c].req.path)) =>
            /\ conn[c].body = conn[d].body
            /\ HeaderSet(conn[c].wire) = HeaderSet(conn[d].wire)

\* C8 amended: two responses to the same request for an existing, unchanged
\* file have the same body and the same set of headers but for the value of
\* the Date header, which is the time of each response.
C8_SameButDate ==
    \A c, d \in Conns :
        (Served(c) /\ Served(d) /\ conn[c].req = conn[d].req
            /\ FileExists(conn[c].req.path)) =>
            /\ conn[c].body = conn[d].body
            /\ HeaderSetButDate(conn[c].wire) = HeaderSetButDate(conn[d].wire)
            /\ \A i \in 1..Len(conn[c].wire) :
                   conn[c].wire[i].k = "Date" =>
                       conn[c].wire[i].v = ToString(conn[c].date)

\* The same file was served twice, a second apart.
C8_Witness ==
    \E c, d \in Conns :
        /\ c # d
        /\ Served(c) /\ Served(d)
        /\ conn[c].req = conn[d].req
        /\ StatusOf(conn[c].wire) = "200"
        /\ conn[c].body.kind = "file"
        /\ conn[c].date # conn[d].date

\* C9 as stated: once the two lines are printed (and the constructor that
\* follows them has returned or raised), a listener is bound at 127.0.0.1
\* on the port of the printed URL.
C9_PrintedUrlIsBound ==
    (stdout # <<>> /\ pc # "bind") =>
        /\ Len(stdout) = 2
        /\ stdout[1].kind = "url"
        /\ listener = [host |-> stdout[1].host, port |-> stdout[1].port]

NotInjected(line) == line.k \notin InjectedNames

\* What SimpleHTTPRequestHandler itself answers to the request of c at the
\* same time and with the same table.
BaseAnswer(c) ==
    handle_one_request(NewHandler("SimpleHTTPRequestHandler"), conn[c].req,
                       conn[c].date, types_map)

\* C10: for every request the status line, the headers of the file-serving
\* logic (names, values, order) up to the blank line, and the body are those
\* of the base handler; the response differs from it by the two injected
\* headers only.
C10_OnlyHeadersAdded ==
    \A c \in Conns :
        Served(c) =>
            LET base == BaseAnswer(c)
                w    == conn[c].wire
            IN  /\ SelectSeq(w, NotInjected) = base.wire
                /\ StatusOf(w) = StatusOf(base.wire)
                /\ conn[c].body = base.body
                /\ Len(w) \in {Len(base.wire), Len(base.wire) + 2}

\* A 404 answered with the base handler's header block plus two lines.
C10_Witness ==
    \E c \in Conns :
        /\ Served(c)
        /\ StatusOf(conn[c].wire) = "404"
        /\ Len(conn[c].wire) = Len(BaseAnswer(c).wire) + 2
        /\ conn[c].body.kind = "error"

====
